---- MODULE Spec2Model ----
(***************************************************************************)
(* CineMap backend (backend/server.py): the movie search and network       *)
(* endpoints over the TMDB catalog (live or mock data) and the status      *)
(* check endpoints over the status_checks collection.                      *)
(*                                                                         *)
(* Encoding of Python values: an Optional value is a sequence of length    *)
(* at most one (None is <<>>, the value v is <<v>>); a dict is a record    *)
(* whose domain is the set of keys present; a float rating is kept in      *)
(* tenths (8.4 is 84).                                                     *)
(***************************************************************************)
EXTENDS Integers, Sequences, FiniteSets, TLC

VARIABLES
    TMDB_API_KEY,   \* the credential read at start-up (server.py:30)
    tmdb,           \* the JSON bodies the upstream catalog answers with
    status_checks,  \* the documents of db.status_checks, in store order
    clock,          \* datetime.utcnow, advanced by every POST /status
    resp,           \* the last response sent: op, req, status, body
    calls,          \* the upstream HTTP calls made for the last request
    observed,       \* one earlier movie request: its response and its calls
    created,        \* the records POST /status has created in this run
    listed          \* the list of the last GET /status since the last POST

vars == <<TMDB_API_KEY, tmdb, status_checks, clock, resp, calls, observed, created, listed>>

----------------------------------------------------------------------------
(* Bounds of the model *)

MaxUpstream == 9
MaxPosts == 2

(* Program constants *)

RELATED_LIMIT == 8
LIST_LIMIT == 1000
HTTP_OK == 200
HTTP_ERROR == 500

TMDB_IMAGE_BASE_URL == "https://image.tmdb.org/t/p/w500"
PLACEHOLDER_KEY == "placeholder_key"

(* Inputs *)

Queries == {"", "fight"}
Pages == {1, 2}
MovieIds == {550, 13, 99999999}
ClientNames == {"web"}
UUIDs == {"uuid-a", "uuid-b"}
Outcomes == {"ok", "ConnectionError", "HTTPError"}

----------------------------------------------------------------------------
(* Python helpers *)

None == <<>>
Some(v) == <<v>>

Min(a, b) == IF a < b THEN a ELSE b

dict_get(d, k, default) == IF k \in DOMAIN d THEN d[k] ELSE default

Truthy(opt) == opt # None /\ opt[1] # ""

NoSlice(s, n) == s

SliceSkipFirst(s, n) == SubSeq(s, 2, Min(Len(s), n + 1))

Slice(s, n) == SubSeq(s, 1, Min(Len(s), n))

----------------------------------------------------------------------------
(* Movie normalisation *)

PosterUrlUnlessNone(poster_path) ==
    IF poster_path # None
    THEN Some(TMDB_IMAGE_BASE_URL \o poster_path[1])
    ELSE None

get_movie_poster_url(poster_path) ==
    IF Truthy(poster_path)
    THEN Some(TMDB_IMAGE_BASE_URL \o poster_path[1])
    ELSE None

MakeMovie(movie_data) ==
    [ id           |-> movie_data.id,
      title        |-> movie_data.title,
      overview     |-> movie_data.overview,
      poster_path  |-> dict_get(movie_data, "poster_path", None),
      release_date |-> dict_get(movie_data, "release_date", None),
      vote_average |-> dict_get(movie_data, "vote_average", 0),
      poster_url   |-> get_movie_poster_url(dict_get(movie_data, "poster_path", None)) ]

MapMovies(raw) == [i \in 1..Len(raw) |-> MakeMovie(raw[i])]

----------------------------------------------------------------------------
(* Mock data *)

MockFightClub ==
    [ id |-> 550, title |-> "Clube da Luta",
      overview |-> "Um insonista e um vendedor de sabão canalizam a agressão masculina em uma nova forma de terapia.",
      poster_path |-> Some("/pB8BM7pdSp6B6Ih7QZ4DrQ3PmJK.jpg"),
      release_date |-> Some("1999-10-15"), vote_average |-> 84 ]

MockForrestGump ==
    [ id |-> 13, title |-> "Forrest Gump",
      overview |-> "Um homem com QI baixo conseguiu grandes coisas em sua vida e esteve presente durante eventos históricos significativos.",
      poster_path |-> Some("/arw2vcBveWOVZr6pxd9XTd1TdQa.jpg"),
      release_date |-> Some("1994-06-23"), vote_average |-> 85 ]

MockSearchData ==
    [ results |-> <<MockFightClub, MockForrestGump>>, total_results |-> 2 ]

mock_recommendations ==
    << [ id |-> 807, title |-> "Se7en",
         overview |-> "Dois detetives de homicídio estão em uma caça desesperada por um serial killer.",
         poster_path |-> Some("/6yoghtyTpznpBik8EngEmJskVUO.jpg"),
         release_date |-> Some("1995-09-22"), vote_average |-> 83 ],
       [ id |-> 155, title |-> "Batman: O Cavaleiro das Trevas",
         overview |-> "Batman eleva as apostas em sua guerra contra o crime.",
         poster_path |-> Some("/qJ2tW6WMUDux911r6m7haRef0WH.jpg"),
         release_date |-> Some("2008-07-18"), vote_average |-> 90 ],
       [ id |-> 497, title |-> "À Espera de um Milagre",
         overview |-> "Uma história sobrenatural passada no corredor da morte em uma prisão do sul.",
         poster_path |-> Some("/velWPhVMQeQKcxggNEU8YmIo52R.jpg"),
         release_date |-> Some("1999-12-10"), vote_average |-> 85 ],
       [ id |-> 680, title |-> "Pulp Fiction",
         overview |-> "Um assassino que adora hambúrgueres, seu parceiro filosófico e a mulher de um gângster viciado em drogas.",
         poster_path |-> Some("/d5iIlFn5s0ImszYzBPb8JPIfbXD.jpg"),
         release_date |-> Some("1994-09-10"), vote_average |-> 89 ],
       [ id |-> 73, title |-> "A Outra História Americana",
         overview |-> "Um ex-skinhead neonazista tenta impedir que seu irmão mais novo siga o mesmo caminho errado.",
         poster_path |-> Some("/fXepRAYOx1qC3wju7XdDGx60775.jpg"),
         release_date |-> Some("1998-07-01"), vote_average |-> 83 ],
       [ id |-> 769, title |-> "Os Bons Companheiros",
         overview |-> "A história de Henry Hill e sua vida na máfia.",
         poster_path |-> Some("/aKuFiU82s5ISJpGZp7YkIr3kCUd.jpg"),
         release_date |-> Some("1990-09-12"), vote_average |-> 87 ],
       [ id |-> 278, title |-> "Um Sonho de Liberdade",
         overview |-> "Dois homens presos se unem ao longo dos anos.",
         poster_path |-> Some("/q6y0Go1tsGEsmtFryDOJo3dEmqu.jpg"),
         release_date |-> Some("1994-09-23"), vote_average |-> 93 ],
       [ id |-> 240, title |-> "O Poderoso Chefão",
         overview |-> "O patriarca idoso de uma dinastia do crime organizado transfere o controle para seu filho reluctante.",
         poster_path |-> Some("/3bhkrj58Vtu7enYsRolD1fZdja1.jpg"),
         release_date |-> Some("1972-03-14"), vote_average |-> 92 ] >>

mock_movies == (550 :> MockFightClub) @@ (13 :> MockForrestGump)

----------------------------------------------------------------------------
(* The upstream catalog: the JSON bodies TMDB answers with in live mode.    *)
(* Records cycle through the shapes of the optional keys: absent, null,     *)
(* empty string, value.                                                     *)

RawMovie(k) ==
    LET base == [ id |-> k, title |-> "Movie " \o ToString(k),
                  overview |-> "Overview " \o ToString(k) ]
    IN  CASE k % 4 = 0 -> base
          [] k % 4 = 1 -> base @@ [ poster_path |-> None, release_date |-> None,
                                    vote_average |-> 70 ]
          [] k % 4 = 2 -> base @@ [ poster_path |-> Some(""),
                                    release_date |-> Some("2001-01-01"),
                                    vote_average |-> 55 ]
          [] OTHER     -> base @@ [ poster_path |-> Some("/" \o ToString(k) \o ".jpg"),
                                    release_date |-> Some("2002-02-02"),
                                    vote_average |-> 81 ]

RawList(base, n) == [i \in 1..n |-> RawMovie(base + i)]

SearchBase(query, page) == (IF query = "" THEN 100 ELSE 200) + 20 * page

Catalog(n, complete) ==
    [ search |-> [ k \in Queries \X Pages |->
                     IF complete
                     THEN [ page |-> k[2],
                            results |-> RawList(SearchBase(k[1], k[2]), n),
                            total_results |-> n + 3 ]
                     ELSE [ page |-> k[2] ] ],
      detail |-> [ id \in MovieIds |-> RawMovie(id) ],
      recs   |-> [ id \in MovieIds |->
                     IF complete
                     THEN [ page |-> 1, results |-> RawList(id % 1000, n) ]
                     ELSE [ page |-> 1 ] ] ]

----------------------------------------------------------------------------
(* Helper functions for the TMDB API.  Each takes the outcome of the one    *)
(* HTTP call it makes in live mode (a body, a transport failure raised by   *)
(* requests.get, an error status raised by raise_for_status) and returns    *)
(* the JSON body, or the HTTPException it raises, with the calls it made.   *)

Returned(value, made) == [ raised |-> FALSE, value |-> value, calls |-> made ]

Raised(detail, made) ==
    [ raised |-> TRUE, status |-> HTTP_ERROR, detail |-> detail, calls |-> made ]

Call(endpoint, outcome) == [ endpoint |-> endpoint, outcome |-> outcome ]

SearchMockByQuery(query, page, outcome) ==
    IF TMDB_API_KEY = PLACEHOLDER_KEY
    THEN Returned(IF query = ""
                  THEN [ results |-> <<>>, total_results |-> 0 ]
                  ELSE MockSearchData, <<>>)
    ELSE IF outcome = "ok"
         THEN Returned(tmdb.search[<<query, page>>], <<Call("search/movie", outcome)>>)
         ELSE Raised("Erro ao buscar dados do filme", <<Call("search/movie", outcome)>>)

search_movies_tmdb(query, page, outcome) ==
    IF TMDB_API_KEY = PLACEHOLDER_KEY
    THEN Returned(MockSearchData, <<>>)
    ELSE IF outcome = "ok"
         THEN Returned(tmdb.search[<<query, page>>], <<Call("search/movie", outcome)>>)
         ELSE Raised("Erro ao buscar dados do filme", <<Call("search/movie", outcome)>>)

RecommendationsOnlyForKnown(movie_id, outcome) ==
    IF TMDB_API_KEY = PLACEHOLDER_KEY
    THEN Returned([ results |-> IF movie_id \in DOMAIN mock_movies
                                THEN Slice(mock_recommendations, RELATED_LIMIT)
                                ELSE <<>> ], <<>>)
    ELSE IF outcome = "ok"
         THEN Returned(tmdb.recs[movie_id], <<Call("movie/recommendations", outcome)>>)
         ELSE Raised("Erro ao buscar recomendações",
                     <<Call("movie/recommendations", outcome)>>)

get_movie_recommendations_tmdb(movie_id, outcome) ==
    IF TMDB_API_KEY = PLACEHOLDER_KEY
    THEN Returned([ results |-> Slice(mock_recommendations, RELATED_LIMIT) ], <<>>)
    ELSE IF outcome = "ok"
         THEN Returned(tmdb.recs[movie_id], <<Call("movie/recommendations", outcome)>>)
         ELSE Raised("Erro ao buscar recomendações",
                     <<Call("movie/recommendations", outcome)>>)

DetailsWithoutDefault(movie_id, outcome) ==
    IF TMDB_API_KEY = PLACEHOLDER_KEY
    THEN IF movie_id \in DOMAIN mock_movies
         THEN Returned(mock_movies[movie_id], <<>>)
         ELSE Raised("Internal Server Error", <<>>)
    ELSE IF outcome = "ok"
         THEN Returned(tmdb.detail[movie_id], <<Call("movie", outcome)>>)
         ELSE Raised("Erro ao buscar detalhes do filme", <<Call("movie", outcome)>>)

get_movie_details_tmdb(movie_id, outcome) ==
    IF TMDB_API_KEY = PLACEHOLDER_KEY
    THEN Returned(IF movie_id \in DOMAIN mock_movies
                  THEN mock_movies[movie_id]
                  ELSE mock_movies[550], <<>>)
    ELSE IF outcome = "ok"
         THEN Returned(tmdb.detail[movie_id], <<Call("movie", outcome)>>)
         ELSE Raised("Erro ao buscar detalhes do filme", <<Call("movie", outcome)>>)

----------------------------------------------------------------------------
(* Route handlers: each returns the response sent and the upstream calls    *)
(* made while handling the request.                                         *)

Response(op, req, status, body) ==
    [ op |-> op, req |-> req, status |-> status, body |-> body ]

ErrorBody(r) == [ detail |-> r.detail ]

Handled(response, made) == [ resp |-> response, calls |-> made ]

SearchServedFromLast(query, page, outcome) ==
    LET req  == [ query |-> query, page |-> page ]
        data == search_movies_tmdb(query, page, outcome)
    IN  IF resp.op = "search" /\ resp.status = HTTP_OK /\ resp.req.query = query
        THEN Handled(Response("search", req, HTTP_OK, resp.body), <<>>)
        ELSE IF data.raised
        THEN Handled(Response("search", req, data.status, ErrorBody(data)), data.calls)
        ELSE Handled(Response("search", req, HTTP_OK,
                 [ results       |-> MapMovies(dict_get(data.value, "results", <<>>)),
                   total_results |-> dict_get(data.value, "total_results", 0) ]),
                 data.calls)

SearchCutToRelatedLimit(query, page, outcome) ==
    LET req  == [ query |-> query, page |-> page ]
        data == search_movies_tmdb(query, page, outcome)
    IN  IF data.raised
        THEN Handled(Response("search", req, data.status, ErrorBody(data)), data.calls)
        ELSE Handled(Response("search", req, HTTP_OK,
                 [ results       |-> MapMovies(Slice(dict_get(data.value, "results", <<>>),
                                                     RELATED_LIMIT)),
                   total_results |-> dict_get(data.value, "total_results", 0) ]),
                 data.calls)

search_movies(query, page, outcome) ==
    LET req  == [ query |-> query, page |-> page ]
        data == search_movies_tmdb(query, page, outcome)
    IN  IF data.raised
        THEN Handled(Response("search", req, data.status, ErrorBody(data)), data.calls)
        ELSE Handled(Response("search", req, HTTP_OK,
                 [ results       |-> MapMovies(dict_get(data.value, "results", <<>>)),
                   total_results |-> dict_get(data.value, "total_results", 0) ]),
                 data.calls)

NetworkToleratingFailure(movie_id, detailOutcome, recsOutcome) ==
    LET req     == [ movie_id |-> movie_id ]
        central == get_movie_details_tmdb(movie_id, detailOutcome)
        recs    == get_movie_recommendations_tmdb(movie_id, recsOutcome)
    IN  IF central.raised
        THEN Handled(Response("network", req, central.status, ErrorBody(central)),
                     central.calls)
        ELSE Handled(Response("network", req, HTTP_OK,
                 [ central_movie  |-> MakeMovie(central.value),
                   related_movies |->
                       IF recs.raised THEN <<>>
                       ELSE MapMovies(Slice(dict_get(recs.value, "results", <<>>),
                                            RELATED_LIMIT)) ]),
                 central.calls \o recs.calls)

get_movie_network(movie_id, detailOutcome, recsOutcome) ==
    LET req     == [ movie_id |-> movie_id ]
        central == get_movie_details_tmdb(movie_id, detailOutcome)
        recs    == get_movie_recommendations_tmdb(movie_id, recsOutcome)
    IN  IF central.raised
        THEN Handled(Response("network", req, central.status, ErrorBody(central)),
                     central.calls)
        ELSE IF recs.raised
        THEN Handled(Response("network", req, recs.status, ErrorBody(recs)),
                     central.calls \o recs.calls)
        ELSE Handled(Response("network", req, HTTP_OK,
                 [ central_movie  |-> MakeMovie(central.value),
                   related_movies |->
                       MapMovies(Slice(dict_get(recs.value, "results", <<>>),
                                       RELATED_LIMIT)) ]),
                 central.calls \o recs.calls)

root == Response("root", <<>>, HTTP_OK,
                 [ message |-> "CineMap API - Descoberta Interativa de Filmes" ])

StatusCheck(id, client_name, timestamp) ==
    [ id |-> id, client_name |-> client_name, timestamp |-> timestamp ]

InsertDropped(collection, document) == collection

UpsertByClientName(collection, document) ==
    IF \E i \in 1..Len(collection) : collection[i].client_name = document.client_name
    THEN [ i \in 1..Len(collection) |->
             IF collection[i].client_name = document.client_name
             THEN document ELSE collection[i] ]
    ELSE Append(collection, document)

insert_one(collection, document) == Append(collection, document)

to_list(collection, length) == Slice(collection, length)

----------------------------------------------------------------------------
(* Initial states *)

UpstreamSizes == {0, 3, RELATED_LIMIT, MaxUpstream}

Catalogs == { Catalog(n, TRUE) : n \in UpstreamSizes } \cup { Catalog(0, FALSE) }

NoResponse == Response("none", <<>>, 0, <<>>)

OldRecords(n) == [ i \in 1..n |-> StatusCheck("uuid-old-" \o ToString(i), "old", 0) ]

InitWith(store) ==
    /\ TMDB_API_KEY \in {PLACEHOLDER_KEY, "live_key"}
    /\ tmdb \in IF TMDB_API_KEY = PLACEHOLDER_KEY THEN { Catalog(0, FALSE) } ELSE Catalogs
    /\ status_checks = store
    /\ clock = 1
    /\ resp = NoResponse
    /\ calls = <<>>
    /\ observed = None
    /\ created = <<>>
    /\ listed = None

(* A fresh deployment: the collection is empty. *)
Init == InitWith(<<>>)

(* A start over a collection that earlier runs filled up to just below the  *)
(* length GET /status lists; mock mode.                                     *)
InitLongLived == InitWith(OldRecords(LIST_LIMIT - 1)) /\ TMDB_API_KEY = PLACEHOLDER_KEY

----------------------------------------------------------------------------
(* Actions: one per route *)

(* No HTTP call is made in mock mode, and none after a raised exception. *)
OutcomesOfCall(made) ==
    IF TMDB_API_KEY = PLACEHOLDER_KEY \/ ~made THEN {"ok"} ELSE Outcomes

(* The observer keeps one movie request it chooses to keep: the request    *)
(* answered last, as the next request arrives.                              *)
Observe ==
    IF observed = None /\ resp.op \in {"search", "network"}
    THEN {None, Some(Handled(resp, calls))}
    ELSE {observed}

SearchMovies ==
    \E query \in Queries, page \in Pages, outcome \in OutcomesOfCall(TRUE) :
        LET h == search_movies(query, page, outcome)
        IN  /\ resp' = h.resp
            /\ calls' = h.calls
            /\ observed' \in Observe
            /\ UNCHANGED <<TMDB_API_KEY, tmdb, status_checks, clock, created, listed>>

GetMovieNetwork ==
    \E movie_id \in MovieIds, detailOutcome \in OutcomesOfCall(TRUE) :
    \E recsOutcome \in OutcomesOfCall(detailOutcome = "ok") :
        LET h == get_movie_network(movie_id, detailOutcome, recsOutcome)
        IN  /\ resp' = h.resp
            /\ calls' = h.calls
            /\ observed' \in Observe
            /\ UNCHANGED <<TMDB_API_KEY, tmdb, status_checks, clock, created, listed>>

Root ==
    /\ resp' = root
    /\ calls' = <<>>
    /\ observed' \in Observe
    /\ UNCHANGED <<TMDB_API_KEY, tmdb, status_checks, clock, created, listed>>

CreateStatusCheck ==
    /\ clock <= MaxPosts
    /\ \E client_name \in ClientNames, id \in UUIDs :
        LET status_obj == StatusCheck(id, client_name, clock)
        IN  /\ status_checks' = insert_one(status_checks, status_obj)
            /\ resp' = Response("create_status", [ client_name |-> client_name ],
                                HTTP_OK, status_obj)
            /\ created' = Append(created, status_obj)
    /\ clock' = clock + 1
    /\ calls' = <<>>
    /\ listed' = None
    /\ observed' \in Observe
    /\ UNCHANGED <<TMDB_API_KEY, tmdb>>

GetStatusChecks ==
    LET status_list == to_list(status_checks, LIST_LIMIT)
    IN  /\ resp' = Response("get_status", <<>>, HTTP_OK, status_list)
        /\ listed' = Some(status_list)
        /\ calls' = <<>>
        /\ observed' \in Observe
        /\ UNCHANGED <<TMDB_API_KEY, tmdb, status_checks, clock, created>>

Next ==
    \/ SearchMovies
    \/ GetMovieNetwork
    \/ Root
    \/ CreateStatusCheck
    \/ GetStatusChecks

Spec == Init /\ [][Next]_vars

SpecLongLived == InitLongLived /\ [][Next]_vars

----------------------------------------------------------------------------
(* Properties *)

Range(seq) == { seq[i] : i \in DOMAIN seq }

Succeeded(r, op) == r.op = op /\ r.status = HTTP_OK

MockMode == TMDB_API_KEY = PLACEHOLDER_KEY

(* The related records the catalog holds for a movie, before any cut. *)
UpstreamRelated(movie_id) ==
    IF MockMode THEN mock_recommendations
    ELSE dict_get(tmdb.recs[movie_id], "results", <<>>)

(* The body the catalog holds for a search, before normalisation. *)
UpstreamSearch(query, page) ==
    IF MockMode THEN MockSearchData ELSE tmdb.search[<<query, page>>]

(* The movies a response carries. *)
MoviesOf(r) ==
    IF Succeeded(r, "search") THEN Range(r.body.results)
    ELSE IF Succeeded(r, "network")
         THEN {r.body.central_movie} \cup Range(r.body.related_movies)
         ELSE {}

(* C1: every successful network response, in live or in mock mode and for  *)
(* any number of related records the upstream returns, carries at most 8   *)
(* related movies.                                                          *)
C1_RelatedAtMostEight ==
    Succeeded(resp, "network") => Len(resp.body.related_movies) <= RELATED_LIMIT

(* C1 witness: a live network response cut to 8 from a longer upstream list. *)
C1_Witness ==
    /\ ~MockMode
    /\ Succeeded(resp, "network")
    /\ Len(UpstreamRelated(resp.req.movie_id)) > RELATED_LIMIT
    /\ Len(resp.body.related_movies) = RELATED_LIMIT

(* C2: every movie of every response has a poster_url exactly when its      *)
(* poster_path is present and non-empty, and then the poster_url is the     *)
(* image host prefix followed by that poster_path.                          *)
C2_PosterUrlIffPosterPath ==
    \A m \in MoviesOf(resp) :
        /\ (m.poster_url # None) <=> (m.poster_path # None /\ m.poster_path[1] # "")
        /\ (m.poster_url # None /\ m.poster_path # None)
               => m.poster_url[1] = TMDB_IMAGE_BASE_URL \o m.poster_path[1]

(* C2 witness: one response with a movie without poster_path, one with an   *)
(* empty poster_path and one with a poster_path and its URL.                *)
C2_Witness ==
    /\ \E m \in MoviesOf(resp) : m.poster_path = None /\ m.poster_url = None
    /\ \E m \in MoviesOf(resp) : m.poster_path = Some("") /\ m.poster_url = None
    /\ \E m \in MoviesOf(resp) : Truthy(m.poster_path) /\ m.poster_url # None

(* C3: in mock mode a network request succeeds for every id; an id of the   *)
(* detail table (550, 13) gets its own record, any other id gets the record *)
(* of 550, the same central movie network(550) returns.                     *)
C3_UnknownIdDefaultsTo550 ==
    (MockMode /\ resp.op = "network") =>
        /\ resp.status = HTTP_OK
        /\ resp.req.movie_id \in {550, 13}
               => resp.body.central_movie.id = resp.req.movie_id
        /\ resp.req.movie_id \notin {550, 13}
               => /\ resp.body.central_movie.id = 550
                  /\ resp.body.central_movie.title = "Clube da Luta"
                  /\ (observed # None /\ observed[1].resp.op = "network"
                         /\ observed[1].resp.req.movie_id = 550)
                       => resp.body.central_movie = observed[1].resp.body.central_movie

(* C3 witness: network(99999999) answered after network(550) was observed.  *)
C3_Witness ==
    /\ MockMode
    /\ Succeeded(resp, "network")
    /\ resp.req.movie_id = 99999999
    /\ observed # None
    /\ Succeeded(observed[1].resp, "network")
    /\ observed[1].resp.req.movie_id = 550

(* C4 as amended: a GET /status lists every record POST /status created,    *)
(* as long as the collection holds at most 1000 documents, and it returns   *)
(* the list the previous GET returned when no POST came between them.       *)
C4_GetShowsCreatedWithinLimit ==
    [][ resp'.op = "get_status" =>
          /\ Len(status_checks') <= LIST_LIMIT
                 => \A i \in DOMAIN created' : created'[i] \in Range(resp'.body)
          /\ listed # None => resp'.body = listed[1] ]_vars

(* C4 witness: a GET over a collection of exactly 1000 documents lists the  *)
(* record the last POST created.                                            *)
C4_Witness ==
    /\ resp.op = "get_status"
    /\ created # <<>>
    /\ Len(status_checks) = LIST_LIMIT
    /\ created[Len(created)] \in Range(resp.body)

(* C4 as stated: a GET /status that follows a POST /status lists the record *)
(* that POST created, and two GETs with no POST between them return the     *)
(* same list.                                                               *)
C4_GetShowsCreated ==
    [][ resp'.op = "get_status" =>
          /\ \A i \in DOMAIN created' : created'[i] \in Range(resp'.body)
          /\ listed # None => resp'.body = listed[1] ]_vars

(* C5: in live mode a request with a failed upstream call ends in a 500     *)
(* response without movie data; the failed call is the last call made and   *)
(* no endpoint is called twice (no retry), so a failed detail fetch is      *)
(* followed by no related fetch and a failed related fetch yields the error *)
(* and not the central movie alone.                                         *)
C5_UpstreamFailureIsError ==
    ( /\ ~MockMode
      /\ resp.op \in {"search", "network"}
      /\ \E i \in DOMAIN calls : calls[i].outcome # "ok" ) =>
        /\ resp.status = HTTP_ERROR
        /\ DOMAIN resp.body = {"detail"}
        /\ \A i \in DOMAIN calls : calls[i].outcome # "ok" => i = Len(calls)
        /\ \A i, j \in DOMAIN calls : calls[i].endpoint = calls[j].endpoint => i = j
        /\ calls[1].outcome # "ok" => Len(calls) = 1

(* C5 witness: a network request whose detail fetch succeeded and whose     *)
(* related fetch failed, answered with the error.                           *)
C5_Witness ==
    /\ ~MockMode
    /\ resp.op = "network"
    /\ resp.status = HTTP_ERROR
    /\ Len(calls) = 2
    /\ calls[1] = Call("movie", "ok")
    /\ calls[2] = Call("movie/recommendations", "HTTPError")

(* C6: in mock mode every network request returns exactly 8 related movies, *)
(* the same sequence whatever id was requested.                             *)
C6_MockRelatedIgnoresId ==
    (MockMode /\ resp.op = "network") =>
        /\ resp.status = HTTP_OK
        /\ Len(resp.body.related_movies) = RELATED_LIMIT
        /\ (observed # None /\ Succeeded(observed[1].resp, "network"))
               => resp.body.related_movies = observed[1].resp.body.related_movies

(* C6 witness: two mock network responses for an unknown and a known id.    *)
C6_Witness ==
    /\ MockMode
    /\ Succeeded(resp, "network")
    /\ resp.req.movie_id = 99999999
    /\ observed # None
    /\ Succeeded(observed[1].resp, "network")
    /\ observed[1].resp.req.movie_id = 13

(* C7: in mock mode every search succeeds with exactly 2 results and        *)
(* total_results 2, the same body for every query text and page.            *)
C7_MockSearchIgnoresParams ==
    (MockMode /\ resp.op = "search") =>
        /\ resp.status = HTTP_OK
        /\ Len(resp.body.results) = 2
        /\ resp.body.total_results = 2
        /\ (observed # None /\ Succeeded(observed[1].resp, "search"))
               => resp.body = observed[1].resp.body

(* C7 witness: a mock search for the empty query on page 2 after a search   *)
(* for another query on page 1.                                             *)
C7_Witness ==
    /\ MockMode
    /\ Succeeded(resp, "search")
    /\ resp.req = [ query |-> "", page |-> 2 ]
    /\ observed # None
    /\ Succeeded(observed[1].resp, "search")
    /\ observed[1].resp.req = [ query |-> "fight", page |-> 1 ]

(* C8: a search or network request repeated with the same parameters, the   *)
(* upstream answering its calls as before, gets the response the earlier    *)
(* request got, whatever requests were handled in between.                  *)
C8_RepeatedRequestSameResponse ==
    ( /\ observed # None
      /\ resp.op \in {"search", "network"}
      /\ observed[1].resp.op = resp.op
      /\ observed[1].resp.req = resp.req
      /\ observed[1].calls = calls ) => resp = observed[1].resp

(* C8 witness: a live search repeated after status checks were posted and   *)
(* listed.                                                                  *)
C8_Witness ==
    /\ ~MockMode
    /\ observed # None
    /\ Succeeded(resp, "search")
    /\ Len(resp.body.results) > 0
    /\ observed[1].resp = resp
    /\ observed[1].calls = calls
    /\ created # <<>>
    /\ listed # None

(* C9: the collection is append-only: a POST /status appends exactly the    *)
(* record it returns, and every other request (GET /status, search,         *)
(* network, root) leaves the collection as it was.                          *)
C9_StoreAppendOnly ==
    [][ /\ resp'.op = "create_status"
            => status_checks' = Append(status_checks, resp'.body)
        /\ resp'.op # "create_status"
            => status_checks' = status_checks ]_vars

(* C9 witness: a search handled after two records were posted.              *)
C9_Witness ==
    /\ Len(status_checks) = 2
    /\ resp.op \in {"search", "network"}

(* C10: the related movies of a successful network response are the         *)
(* normalised first min(8, n) records of the n related records of the       *)
(* upstream, in upstream order, and cutting them to 8 again changes nothing. *)
C10_RelatedIsUpstreamPrefix ==
    Succeeded(resp, "network") =>
        LET up  == UpstreamRelated(resp.req.movie_id)
            rel == resp.body.related_movies
        IN  /\ Len(rel) = Min(RELATED_LIMIT, Len(up))
            /\ \A i \in DOMAIN rel : rel[i] = MakeMovie(up[i])
            /\ SubSeq(rel, 1, Min(Len(rel), RELATED_LIMIT)) = rel

(* C10 witness: a live response over 3 upstream records returned whole.     *)
C10_Witness ==
    /\ ~MockMode
    /\ Succeeded(resp, "network")
    /\ Len(UpstreamRelated(resp.req.movie_id)) = 3
    /\ Len(resp.body.related_movies) = 3

(* C11: the results of a successful search are the normalised records of   *)
(* the upstream result set, all of them and in upstream order (also above   *)
(* 8), and total_results is the total the upstream reports, or 0 when it    *)
(* reports none, whatever the length of results.                            *)
C11_SearchIsWholeUpstream ==
    Succeeded(resp, "search") =>
        LET up  == UpstreamSearch(resp.req.query, resp.req.page)
            raw == IF "results" \in DOMAIN up THEN up.results ELSE <<>>
            res == resp.body.results
        IN  /\ Len(res) = Len(raw)
            /\ \A i \in DOMAIN res : res[i] = MakeMovie(raw[i])
            /\ "total_results" \in DOMAIN up
                   => resp.body.total_results = up.total_results
            /\ "total_results" \notin DOMAIN up
                   => resp.body.total_results = 0

(* C11 witness: a live search over more than 8 upstream records, returned   *)
(* whole with a total that differs from the number of results.              *)
C11_Witness ==
    /\ ~MockMode
    /\ Succeeded(resp, "search")
    /\ Len(resp.body.results) > RELATED_LIMIT
    /\ Len(resp.body.results) = Len(UpstreamSearch(resp.req.query, resp.req.page).results)
    /\ resp.body.total_results # Len(resp.body.results)

(* C11 witness of the default: a live search whose upstream body reports    *)
(* neither results nor a total.                                             *)
C11_WitnessNoTotal ==
    /\ ~MockMode
    /\ Succeeded(resp, "search")
    /\ "total_results" \notin DOMAIN UpstreamSearch(resp.req.query, resp.req.page)
    /\ resp.body.total_results = 0

====
